---- MODULE Spec2Model ----
(***************************************************************************)
(* Model of jsonschema.go: the reflection-driven inference of a JSON       *)
(* Schema tree (property) from a Go type (Read) or a Go value (ReadDeep).  *)
(*                                                                         *)
(* Go types are records [kind, name, key, elem, fields]; "elem" and "key"  *)
(* hold zero or one type.  Go values (reflect.Value) are records           *)
(* [type, valid, data, elems, entries].  A struct tag is the sequence of   *)
(* its comma-free pieces and its commas, so that strings.Index(tag, ",")   *)
(* is the position of the first "," token.                                 *)
(***************************************************************************)
EXTENDS Integers, Sequences, FiniteSets, TLC

VARIABLES doc, calls, op, arg, panicked, wstack, wdone

vars == <<doc, calls, op, arg, panicked, wstack, wdone>>

(***************************************************************************)
(* Bounds of the model.                                                    *)
(***************************************************************************)
MaxFields == 2      \* members of a generated record type
MaxEntries == 2     \* entries of a generated map value
MaxCalls == 2       \* inference calls on one Document (specification Spec)
MaxDepth == 6       \* active read/readDeep frames followed by SpecWalk

(***************************************************************************)
(* reflect.Type                                                            *)
(***************************************************************************)
Prim(k) == [kind |-> k, name |-> "", key |-> <<>>, elem |-> <<>>, fields |-> <<>>]
SliceOf(t) == [kind |-> "slice", name |-> "", key |-> <<>>, elem |-> <<t>>, fields |-> <<>>]
PtrTo(t) == [kind |-> "ptr", name |-> "", key |-> <<>>, elem |-> <<t>>, fields |-> <<>>]
MapOf(k, t) == [kind |-> "map", name |-> "", key |-> <<k>>, elem |-> <<t>>, fields |-> <<>>]
StructOf(n, fs) == [kind |-> "struct", name |-> n, key |-> <<>>, elem |-> <<>>, fields |-> fs]
\* a use of a declared (possibly self-referential) named type
Named(n) == [kind |-> "named", name |-> n, key |-> <<>>, elem |-> <<>>, fields |-> <<>>]

\* reflect.StructField: Name, Tag.Get("json") as tokens, Anonymous, Type
Field(n, tag, anon, t) == [Name |-> n, Tag |-> tag, Anonymous |-> anon, Type |-> t]

BoolT == Prim("bool")
IntT == Prim("int")
Int8T == Prim("int8")
Uint8T == Prim("uint8")
Float64T == Prim("float64")
StringT == Prim("string")
Complex128T == Prim("complex128")
IfaceT == Prim("interface")
InvalidT == Prim("invalid")

\* time.Time of the standard library: a struct, as far as its kind goes
TimeT ==
    StructOf("time.Time", <<Field("wall", <<>>, FALSE, Prim("uint64")),
                            Field("ext", <<>>, FALSE, Prim("int64"))>>)

\* type Tree struct { Children []Tree }: a type that mentions itself
TreeT == StructOf("Tree", <<Field("Children", <<>>, FALSE, SliceOf(Named("Tree")))>>)
\* type Node struct { Next *Node }
NodeT == StructOf("Node", <<Field("Next", <<>>, FALSE, PtrTo(Named("Node")))>>)

\* the declaration a named use stands for
Deref(t) ==
    IF t.kind # "named" THEN t
    ELSE IF t.name = "Tree" THEN TreeT ELSE NodeT

\* t.Elem()
Elem(t) == Deref(Deref(t).elem[1])
\* t.Field(i).Type
FieldType(t, i) == Deref(Deref(t).fields[i].Type)

(***************************************************************************)
(* reflect.Value                                                           *)
(***************************************************************************)
\* the zero reflect.Value: reflect.ValueOf(nil), Elem() of a nil pointer or interface
InvalidV == [type |-> InvalidT, valid |-> FALSE, data |-> "", elems |-> <<>>, entries |-> <<>>]
PrimV(t, d) == [type |-> t, valid |-> TRUE, data |-> d, elems |-> <<>>, entries |-> <<>>]
\* a slice and its elements, a struct and its members' values, or a pointer or
\* interface and what it holds (nothing when nil)
ElemsV(t, es) == [type |-> t, valid |-> TRUE, data |-> "", elems |-> es, entries |-> <<>>]
\* a map and its entries [key, val], in the order MapRange hands them out
MapV(t, es) == [type |-> t, valid |-> TRUE, data |-> "", elems |-> <<>>, entries |-> es]

\* v.Type()
TypeOf(v) == Deref(v.type)
\* v.Kind()
KindOf(v) == IF v.valid THEN TypeOf(v).kind ELSE "invalid"
\* v.Elem() of a pointer or an interface
ValueElem(v) == IF v.elems = <<>> THEN InvalidV ELSE v.elems[1]

\* reflect.Value.String(): the text itself for a string, and for any other
\* kind "<T Value>", T being v.Type().String()
ValueString(v) ==
    CASE KindOf(v) = "invalid" -> "<invalid Value>"
      [] KindOf(v) = "string" -> v.data
      [] OTHER -> "<" \o (IF TypeOf(v).name # "" THEN TypeOf(v).name ELSE TypeOf(v).kind)
                      \o " Value>"

(***************************************************************************)
(* Kind Mapper                                                             *)
(***************************************************************************)
defaultSchema == "http://json-schema.org/schema#"

formatMapping == [n \in {"time.Time"} |-> <<"string", "date-time">>]

IntegerKinds ==
    {"int", "int8", "int16", "int32", "int64",
     "uint", "uint8", "uint16", "uint32", "uint64"}

kindMapping ==
    [k \in IntegerKinds \cup {"bool", "float32", "float64", "string", "slice", "struct", "map"} |->
        CASE k \in IntegerKinds -> "integer"
          [] k = "bool" -> "boolean"
          [] k \in {"float32", "float64"} -> "number"
          [] k = "string" -> "string"
          [] k = "slice" -> "array"
          [] OTHER -> "object"]

getTypeFromMapping(t) ==
    IF Deref(t).name \in DOMAIN formatMapping
    THEN [jsType |-> formatMapping[Deref(t).name][1],
          format |-> formatMapping[Deref(t).name][2], kind |-> "string"]
    ELSE IF Deref(t).kind \in DOMAIN kindMapping
    THEN [jsType |-> kindMapping[Deref(t).kind], format |-> "", kind |-> Deref(t).kind]
    ELSE [jsType |-> "", format |-> "", kind |-> Deref(t).kind]

(***************************************************************************)
(* Tag Parser                                                              *)
(***************************************************************************)
\* strings.Index(s, ","): 0 stands for Go's -1
IndexComma(s) ==
    IF \E i \in 1..Len(s) : s[i] = ","
    THEN CHOOSE i \in 1..Len(s) : s[i] = "," /\ \A j \in 1..(i - 1) : s[j] # ","
    ELSE 0

\* the text of a comma-free stretch of a tag: at most one piece
Text(s) == IF s = <<>> THEN "" ELSE s[1]

parseTag(tag) ==
    IF IndexComma(tag) # 0
    THEN [name |-> Text(SubSeq(tag, 1, IndexComma(tag) - 1)),
          opts |-> SubSeq(tag, IndexComma(tag) + 1, Len(tag))]
    ELSE [name |-> Text(tag), opts |-> <<>>]

RECURSIVE Contains(_, _)
Contains(o, optionName) ==
    IF o = <<>> THEN FALSE
    ELSE LET i == IndexComma(o)
             s == IF i # 0 THEN SubSeq(o, 1, i - 1) ELSE o
             next == IF i # 0 THEN SubSeq(o, i + 1, Len(o)) ELSE <<>>
         IN  IF Text(s) = optionName THEN TRUE ELSE Contains(next, optionName)

\* the name a member is stored under: the tag's name, else the member's own
ResolvedName(field) ==
    IF parseTag(field.Tag).name = "" THEN field.Name ELSE parseTag(field.Tag).name

(***************************************************************************)
(* property: the Schema Node.  Items and Properties hold zero (nil) or one *)
(* value; Properties' value is a function from names to nodes.             *)
(***************************************************************************)
EmptyProperty ==
    [Type |-> "", Format |-> "", Items |-> <<>>, Properties |-> <<>>,
     Required |-> <<>>, AdditionalProperties |-> FALSE]

EmptyMap == [n \in {} |-> EmptyProperty]

\* m[name] = node
MapPut(m, name, node) ==
    [n \in DOMAIN m \cup {name} |-> IF n = name THEN node ELSE m[n]]

\* for name, property := range from { into[name] = property }
MapMerge(into, from) ==
    [n \in DOMAIN into \cup DOMAIN from |-> IF n \in DOMAIN from THEN from[n] ELSE into[n]]

\* a node's Properties as a function: nothing to range over when nil
PropsOf(p) == IF p.Properties = <<>> THEN EmptyMap ELSE p.Properties[1]

(***************************************************************************)
(* Property Inference Engine.  Every operator takes the node it writes to  *)
(* and yields the node as the call leaves it.                              *)
(***************************************************************************)
RECURSIVE read(_, _, _), readFromSlice(_, _), readFromStruct(_, _), readFromStructLoop(_, _, _)
RECURSIVE readDeep(_, _, _), readFromSliceDeep(_, _), readFromMapDeepLoop(_, _, _)
RECURSIVE readFromStructDeep(_, _), readFromStructDeepLoop(_, _, _), mapKeyToString(_)

setFromMapping(p, m) ==
    [p EXCEPT !.Type = IF m.jsType # "" THEN m.jsType ELSE @,
              !.Format = IF m.format # "" THEN m.format ELSE @]

readFromMap(p, t) ==
    LET m == getTypeFromMapping(Elem(t))
    IN  IF m.jsType # ""
        THEN [p EXCEPT !.Properties =
                 <<MapPut(EmptyMap, ".*", [EmptyProperty EXCEPT !.Type = m.jsType,
                                                               !.Format = m.format])>>]
        ELSE [p EXCEPT !.AdditionalProperties = TRUE]

\* read without its Ptr case: a pointer is left as it is found
read_NoPointerUnwrap(p, t, opts) ==
    LET m == getTypeFromMapping(t)
        q == setFromMapping(p, m)
    IN  CASE m.kind = "slice" -> readFromSlice(q, t)
          [] m.kind = "map" -> readFromMap(q, t)
          [] m.kind = "struct" -> readFromStruct(q, t)
          [] OTHER -> q

read(p, t, opts) ==
    LET m == getTypeFromMapping(t)
        q == setFromMapping(p, m)
    IN  CASE m.kind = "slice" -> readFromSlice(q, t)
          [] m.kind = "map" -> readFromMap(q, t)
          [] m.kind = "struct" -> readFromStruct(q, t)
          [] m.kind = "ptr" -> read(q, Elem(t), opts)
          [] OTHER -> q

\* readFromSlice with the byte test no longer excluding the items
readFromSlice_BytesKeepItems(p, t) ==
    LET m == getTypeFromMapping(Elem(t))
        q == IF m.kind = "uint8" THEN [p EXCEPT !.Type = "string"] ELSE p
    IN  IF m.jsType # "" THEN [q EXCEPT !.Items = <<read(EmptyProperty, Elem(t), <<>>)>>]
        ELSE q

readFromSlice(p, t) ==
    LET m == getTypeFromMapping(Elem(t))
    IN  IF m.kind = "uint8" THEN [p EXCEPT !.Type = "string"]
        ELSE IF m.jsType # "" THEN [p EXCEPT !.Items = <<read(EmptyProperty, Elem(t), <<>>)>>]
        ELSE p

\* readFromStruct's loop without the field.Anonymous branch: an embedded
\* member is stored under its own name
readFromStructLoop_NestsEmbedded(p, t, i) ==
    IF i > Len(Deref(t).fields) THEN p
    ELSE LET field == Deref(t).fields[i]
             opts == parseTag(field.Tag).opts
             name == ResolvedName(field)
         IN  IF name = "-" THEN readFromStructLoop(p, t, i + 1)
             ELSE readFromStructLoop(
                      [p EXCEPT !.Properties =
                                    <<MapPut(PropsOf(p), name, read(EmptyProperty, FieldType(t, i), opts))>>,
                                !.Required = IF Contains(opts, "omitempty") THEN @ ELSE Append(@, name)],
                      t, i + 1)

readFromStructLoop(p, t, i) ==
    IF i > Len(Deref(t).fields) THEN p
    ELSE LET field == Deref(t).fields[i]
             opts == parseTag(field.Tag).opts
             name == ResolvedName(field)
         IN  IF name = "-" THEN readFromStructLoop(p, t, i + 1)
             ELSE IF field.Anonymous
             THEN LET embeddedProperty == read(EmptyProperty, FieldType(t, i), opts)
                  IN  readFromStructLoop(
                          [p EXCEPT !.Properties = <<MapMerge(PropsOf(p), PropsOf(embeddedProperty))>>,
                                    !.Required = @ \o embeddedProperty.Required],
                          t, i + 1)
             ELSE readFromStructLoop(
                      [p EXCEPT !.Properties =
                                    <<MapPut(PropsOf(p), name, read(EmptyProperty, FieldType(t, i), opts))>>,
                                !.Required = IF Contains(opts, "omitempty") THEN @ ELSE Append(@, name)],
                      t, i + 1)

readFromStruct(p, t) ==
    readFromStructLoop([p EXCEPT !.Type = "object", !.Properties = <<EmptyMap>>,
                                 !.AdditionalProperties = FALSE], t, 1)

mapKeyToString(key) ==
    IF KindOf(key) = "interface" THEN mapKeyToString(ValueElem(key)) ELSE ValueString(key)

\* the loop over v.MapRange(): properties after the entries from the i-th on
readFromMapDeepLoop(properties, v, i) ==
    IF i > Len(v.entries) THEN properties
    ELSE readFromMapDeepLoop(
             MapPut(properties, mapKeyToString(v.entries[i].key),
                    readDeep(EmptyProperty, v.entries[i].val, <<>>)),
             v, i + 1)

readFromMapDeep(p, v) ==
    LET properties == readFromMapDeepLoop(EmptyMap, v, 1)
    IN  IF Cardinality(DOMAIN properties) > 0 THEN [p EXCEPT !.Properties = <<properties>>] ELSE p

readDeep(p, v, opts) ==
    IF ~v.valid THEN [p EXCEPT !.Type = "null"]
    ELSE LET m == getTypeFromMapping(TypeOf(v))
             q == setFromMapping(p, m)
         IN  CASE m.kind = "slice" -> readFromSliceDeep(q, v)
               [] m.kind = "map" -> readFromMapDeep(q, v)
               [] m.kind = "struct" -> readFromStructDeep(q, v)
               [] m.kind \in {"ptr", "interface"} -> readDeep(q, ValueElem(v), opts)
               [] OTHER -> q

\* readFromSliceDeep without the fall back to the declared element type
readFromSliceDeep_NoFallback(p, v) ==
    IF Len(v.elems) = 0
    THEN IF getTypeFromMapping(Elem(TypeOf(v))).kind = "uint8" THEN [p EXCEPT !.Type = "string"]
         ELSE p
    ELSE IF getTypeFromMapping(TypeOf(v.elems[1])).kind = "uint8"
    THEN [p EXCEPT !.Type = "string"]
    ELSE [p EXCEPT !.Items = <<readDeep(EmptyProperty, v.elems[1], <<>>)>>]

readFromSliceDeep(p, v) ==
    IF Len(v.elems) = 0
    THEN LET m == getTypeFromMapping(Elem(TypeOf(v)))
         IN  IF m.kind = "uint8" THEN [p EXCEPT !.Type = "string"]
             ELSE IF m.jsType # ""
             THEN [p EXCEPT !.Items = <<read(EmptyProperty, Elem(TypeOf(v)), <<>>)>>]
             ELSE p
    ELSE IF getTypeFromMapping(TypeOf(v.elems[1])).kind = "uint8"
    THEN [p EXCEPT !.Type = "string"]
    ELSE [p EXCEPT !.Items = <<readDeep(EmptyProperty, v.elems[1], <<>>)>>]

\* readFromStructDeep's loop without the omitempty test: every member is required
readFromStructDeepLoop_IgnoresOmitempty(p, v, i) ==
    IF i > Len(TypeOf(v).fields) THEN p
    ELSE LET field == TypeOf(v).fields[i]
             opts == parseTag(field.Tag).opts
             name == ResolvedName(field)
         IN  IF name = "-" THEN readFromStructDeepLoop(p, v, i + 1)
             ELSE IF field.Anonymous
             THEN LET embeddedProperty == readDeep(EmptyProperty, v.elems[i], opts)
                  IN  readFromStructDeepLoop(
                          [p EXCEPT !.Properties = <<MapMerge(PropsOf(p), PropsOf(embeddedProperty))>>,
                                    !.Required = @ \o embeddedProperty.Required],
                          v, i + 1)
             ELSE readFromStructDeepLoop(
                      [p EXCEPT !.Properties =
                                    <<MapPut(PropsOf(p), name, readDeep(EmptyProperty, v.elems[i], opts))>>,
                                !.Required = Append(@, name)],
                      v, i + 1)

readFromStructDeepLoop(p, v, i) ==
    IF i > Len(TypeOf(v).fields) THEN p
    ELSE LET field == TypeOf(v).fields[i]
             opts == parseTag(field.Tag).opts
             name == ResolvedName(field)
         IN  IF name = "-" THEN readFromStructDeepLoop(p, v, i + 1)
             ELSE IF field.Anonymous
             THEN LET embeddedProperty == readDeep(EmptyProperty, v.elems[i], opts)
                  IN  readFromStructDeepLoop(
                          [p EXCEPT !.Properties = <<MapMerge(PropsOf(p), PropsOf(embeddedProperty))>>,
                                    !.Required = @ \o embeddedProperty.Required],
                          v, i + 1)
             ELSE readFromStructDeepLoop(
                      [p EXCEPT !.Properties =
                                    <<MapPut(PropsOf(p), name, readDeep(EmptyProperty, v.elems[i], opts))>>,
                                !.Required = IF Contains(opts, "omitempty") THEN @ ELSE Append(@, name)],
                      v, i + 1)

readFromStructDeep(p, v) ==
    readFromStructDeepLoop([p EXCEPT !.Type = "object", !.Properties = <<EmptyMap>>,
                                     !.AdditionalProperties = FALSE], v, 1)

(***************************************************************************)
(* The inputs: Go types and values of those types that a caller can pass.  *)
(***************************************************************************)
\* type E struct { Zoo string; Opt int `json:",omitempty"` }
InnerE ==
    StructOf("E", <<Field("Zoo", <<>>, FALSE, StringT),
                    Field("Opt", <<",", "omitempty">>, FALSE, IntT)>>)

\* the members a generated record type is built from
FieldPool ==
    { Field("A", <<>>, FALSE, BoolT),
      Field("B", <<",", "omitempty">>, FALSE, StringT),
      Field("Foo", <<"foo">>, FALSE, BoolT),
      Field("X", <<"-">>, FALSE, IntT),
      Field("E", <<>>, TRUE, InnerE),
      Field("E", <<"-">>, TRUE, InnerE),
      Field("E", <<",", "omitempty">>, TRUE, PtrTo(InnerE)),
      Field("Labels", <<>>, TRUE, MapOf(StringT, IntT)),
      Field("P", <<>>, FALSE, PtrTo(InnerE)),
      Field("S", <<>>, FALSE, InnerE),
      Field("List", <<>>, FALSE, SliceOf(InnerE)),
      Field("Raw", <<"raw", ",", "omitempty">>, FALSE, SliceOf(Uint8T)),
      Field("Zoo", <<"Zoo", ",", "string", ",", "omitempty">>, FALSE, IntT),
      Field("I", <<>>, FALSE, IfaceT),
      Field("T", <<>>, FALSE, TimeT) }

\* sequences over S of length n
RECURSIVE SeqsOfLen(_, _)
SeqsOfLen(S, n) ==
    IF n = 0 THEN {<<>>}
    ELSE {Append(q, x) : q \in SeqsOfLen(S, n - 1), x \in S}

\* Go rejects a struct that declares one member name twice
DistinctNames(fs) == \A i, j \in 1..Len(fs) : i # j => fs[i].Name # fs[j].Name

RecordTypes ==
    {StructOf("", fs) : fs \in {q \in UNION {SeqsOfLen(FieldPool, n) : n \in 0..MaxFields} :
                                     DistinctNames(q)}}

LeafTypes == {BoolT, IntT, Int8T, Uint8T, Float64T, StringT, Complex128T, TimeT, IfaceT}

MapTypes ==
    {MapOf(StringT, IntT), MapOf(IntT, StringT), MapOf(IfaceT, BoolT),
     MapOf(StringT, IfaceT), MapOf(StringT, PtrTo(InnerE)), MapOf(StringT, TimeT)}

\* reflect.ValueOf hands out what an interface holds, never the interface
InputTypes ==
    (LeafTypes \ {IfaceT}) \cup {SliceOf(t) : t \in LeafTypes} \cup MapTypes \cup RecordTypes
    \cup {InnerE, PtrTo(InnerE), PtrTo(PtrTo(IntT)), SliceOf(InnerE), SliceOf(SliceOf(Uint8T)),
          SliceOf(PtrTo(InnerE)), SliceOf(MapOf(StringT, IntT))}

\* what an interface{} holds when it is not nil
DynamicValues ==
    {PrimV(IntT, "1"), PrimV(Uint8T, "1"), PrimV(StringT, "x"),
     ElemsV(InnerE, <<PrimV(StringT, "x"), PrimV(IntT, "1")>>),
     ElemsV(PtrTo(InnerE), <<>>)}

\* the keys a map of key type t can hold
KeysOf(t) ==
    CASE t.kind = "string" -> {PrimV(t, "x"), PrimV(t, "y")}
      [] t.kind = "interface" ->
            {ElemsV(t, <<>>), ElemsV(t, <<PrimV(StringT, "x")>>),
             ElemsV(t, <<PrimV(IntT, "1")>>), ElemsV(t, <<PrimV(IntT, "2")>>)}
      [] OTHER -> {PrimV(t, "1"), PrimV(t, "2")}

DistinctKeys(es) == \A i, j \in 1..Len(es) : i # j => es[i].key # es[j].key

\* the values of type t.  A slice holds no element or one: the code reads
\* v.Len() == 0 and v.Index(0) only.
RECURSIVE ValuesOf(_), MemberValues(_, _)
ValuesOf(t) ==
    CASE t.kind = "slice" ->
            {ElemsV(t, <<>>)} \cup {ElemsV(t, <<e>>) : e \in ValuesOf(Elem(t))}
      [] t.kind = "ptr" ->
            {ElemsV(t, <<>>)} \cup {ElemsV(t, <<e>>) : e \in ValuesOf(Elem(t))}
      [] t.kind = "interface" ->
            {ElemsV(t, <<>>)} \cup {ElemsV(t, <<d>>) : d \in DynamicValues}
      [] t.kind = "map" ->
            {MapV(t, es) :
                es \in {q \in UNION {SeqsOfLen([key : KeysOf(Deref(t.key[1])),
                                                val : ValuesOf(Elem(t))], n) :
                                        n \in 0..MaxEntries} : DistinctKeys(q)}}
      [] t.kind = "struct" -> {ElemsV(t, ms) : ms \in MemberValues(t, Len(t.fields))}
      [] t.kind = "string" -> {PrimV(t, "x")}
      [] OTHER -> {PrimV(t, "1")}

\* the values of the first n members of struct type t
MemberValues(t, n) ==
    IF n = 0 THEN {<<>>}
    ELSE {Append(ms, m) : ms \in MemberValues(t, n - 1), m \in ValuesOf(FieldType(t, n))}

\* what a caller passes to Read or ReadDeep on a fresh Document; InvalidV is nil
Inputs == {InvalidV} \cup UNION {ValuesOf(t) : t \in InputTypes}

\* what a caller passes to a Document it populates more than once
ReInputs ==
    {InvalidV, PrimV(IntT, "1"), PrimV(StringT, "x"),
     ElemsV(SliceOf(IntT), <<>>), ElemsV(PtrTo(InnerE), <<>>),
     MapV(MapOf(StringT, IntT), <<>>), MapV(MapOf(StringT, PtrTo(InnerE)), <<>>),
     MapV(MapOf(IntT, StringT), <<[key |-> PrimV(IntT, "1"), val |-> PrimV(StringT, "x")]>>)}
    \cup ValuesOf(TimeT)
    \cup ValuesOf(StructOf("", <<Field("A", <<>>, FALSE, BoolT)>>))
    \cup ValuesOf(StructOf("", <<Field("B", <<",", "omitempty">>, FALSE, StringT),
                                 Field("Foo", <<"foo">>, FALSE, BoolT)>>))

(***************************************************************************)
(* Document                                                                *)
(***************************************************************************)
NewDocument(schema) == [Schema |-> schema, root |-> EmptyProperty]

setDefaultSchema(d) == IF d.Schema = "" THEN [d EXCEPT !.Schema = defaultSchema] ELSE d

\* d.Read(variable): value.Type() panics on the zero Value of a nil variable
Read(variable) ==
    /\ ~panicked
    /\ calls < MaxCalls
    /\ IF ~variable.valid
       THEN /\ doc' = setDefaultSchema(doc)
            /\ panicked' = TRUE
       ELSE /\ doc' = [setDefaultSchema(doc) EXCEPT !.root = read(doc.root, TypeOf(variable), <<>>)]
            /\ panicked' = FALSE
    /\ calls' = calls + 1
    /\ op' = "Read"
    /\ arg' = variable
    /\ UNCHANGED <<wstack, wdone>>

\* d.ReadDeep(variable)
ReadDeep(variable) ==
    /\ ~panicked
    /\ calls < MaxCalls
    /\ doc' = [setDefaultSchema(doc) EXCEPT !.root = readDeep(doc.root, variable, <<>>)]
    /\ panicked' = FALSE
    /\ calls' = calls + 1
    /\ op' = "ReadDeep"
    /\ arg' = variable
    /\ UNCHANGED <<wstack, wdone>>

Init ==
    /\ doc \in {NewDocument(""), NewDocument("http://json-schema.org/draft-04/schema#")}
    /\ calls = 0
    /\ op = "none"
    /\ arg = InvalidV
    /\ panicked = FALSE
    /\ wstack = <<>>
    /\ wdone = FALSE

\* a Document populated by up to MaxCalls inference calls
Next == \E variable \in ReInputs : Read(variable) \/ ReadDeep(variable)

Spec == Init /\ [][Next]_vars

\* one inference call on a freshly constructed Document
FreshRead == calls = 0 /\ \E variable \in Inputs : Read(variable)
FreshReadDeep == calls = 0 /\ \E variable \in Inputs : ReadDeep(variable)

NextFresh == FreshRead \/ FreshReadDeep

SpecFresh == Init /\ [][NextFresh]_vars

(***************************************************************************)
(* The inference walk, one call at a time: wstack holds the active calls   *)
(* of read and readDeep, the innermost last.  A frame is the call's        *)
(* function, its type or value, and the number of the next call it makes.  *)
(***************************************************************************)
ReadFrame(t) == [fn |-> "read", t |-> t, v |-> InvalidV, next |-> 1]
ReadDeepFrame(v) == [fn |-> "readDeep", t |-> InvalidT, v |-> v, next |-> 1]

\* the calls of read that readFromStruct makes for the first n members of t
RECURSIVE readFromStructCalls(_, _)
readFromStructCalls(t, n) ==
    IF n = 0 THEN <<>>
    ELSE readFromStructCalls(t, n - 1) \o
         (IF ResolvedName(Deref(t).fields[n]) = "-" THEN <<>>
          ELSE <<ReadFrame(FieldType(t, n))>>)

\* the calls of readDeep that readFromStructDeep makes for the first n members of v
RECURSIVE readFromStructDeepCalls(_, _)
readFromStructDeepCalls(v, n) ==
    IF n = 0 THEN <<>>
    ELSE readFromStructDeepCalls(v, n - 1) \o
         (IF ResolvedName(TypeOf(v).fields[n]) = "-" THEN <<>>
          ELSE <<ReadDeepFrame(v.elems[n])>>)

\* the calls read(t) makes, in order
readCalls(t) ==
    LET m == getTypeFromMapping(t)
        e == getTypeFromMapping(Elem(t))
    IN  CASE m.kind = "slice" ->
                IF e.kind # "uint8" /\ e.jsType # "" THEN <<ReadFrame(Elem(t))>> ELSE <<>>
          [] m.kind = "struct" -> readFromStructCalls(t, Len(Deref(t).fields))
          [] m.kind = "ptr" -> <<ReadFrame(Elem(t))>>
          [] OTHER -> <<>>

\* the calls readDeep(v) makes, in order
readDeepCalls(v) ==
    IF ~v.valid THEN <<>>
    ELSE LET m == getTypeFromMapping(TypeOf(v))
         IN  CASE m.kind = "slice" ->
                     IF Len(v.elems) = 0
                     THEN LET e == getTypeFromMapping(Elem(TypeOf(v)))
                          IN  IF e.kind # "uint8" /\ e.jsType # ""
                              THEN <<ReadFrame(Elem(TypeOf(v)))>> ELSE <<>>
                     ELSE IF getTypeFromMapping(TypeOf(v.elems[1])).kind = "uint8" THEN <<>>
                     ELSE <<ReadDeepFrame(v.elems[1])>>
               [] m.kind = "map" ->
                     [i \in 1..Len(v.entries) |-> ReadDeepFrame(v.entries[i].val)]
               [] m.kind = "struct" -> readFromStructDeepCalls(v, Len(TypeOf(v).fields))
               [] m.kind \in {"ptr", "interface"} -> <<ReadDeepFrame(ValueElem(v))>>
               [] OTHER -> <<>>

FrameCalls(f) == IF f.fn = "read" THEN readCalls(f.t) ELSE readDeepCalls(f.v)

Top == wstack[Len(wstack)]

\* Tree{} and Tree{Children: []Tree{{}}}; Node{} and Node{Next: &Node{}}
TreeValues ==
    LET leaf == ElemsV(TreeT, <<ElemsV(SliceOf(Named("Tree")), <<>>)>>)
    IN  {leaf, ElemsV(TreeT, <<ElemsV(SliceOf(Named("Tree")), <<leaf>>)>>)}
NodeValues ==
    LET last == ElemsV(NodeT, <<ElemsV(PtrTo(Named("Node")), <<>>)>>)
    IN  {last, ElemsV(NodeT, <<ElemsV(PtrTo(Named("Node")), <<last>>)>>)}

WalkInputs ==
    {InvalidV} \cup TreeValues \cup NodeValues
    \cup UNION {ValuesOf(t) :
                   t \in {InnerE, SliceOf(InnerE), PtrTo(PtrTo(IntT)), SliceOf(SliceOf(Uint8T)),
                          MapOf(StringT, PtrTo(InnerE)),
                          StructOf("", <<Field("E", <<>>, TRUE, InnerE),
                                         Field("I", <<>>, FALSE, IfaceT)>>)}}

InitWalk ==
    /\ doc = NewDocument("")
    /\ calls = 0
    /\ op \in {"Read", "ReadDeep"}
    /\ arg \in WalkInputs
    /\ panicked = FALSE
    /\ wstack = <<>>
    /\ wdone = FALSE

\* Read or ReadDeep is called: setDefaultSchema, then d.read or d.readDeep
WalkStart ==
    /\ wstack = <<>>
    /\ ~wdone
    /\ ~panicked
    /\ doc' = setDefaultSchema(doc)
    /\ IF op = "Read" /\ ~arg.valid
       THEN panicked' = TRUE /\ wstack' = <<>>
       ELSE /\ panicked' = FALSE
            /\ wstack' = <<IF op = "Read" THEN ReadFrame(TypeOf(arg)) ELSE ReadDeepFrame(arg)>>
    /\ UNCHANGED <<calls, op, arg, wdone>>

\* the innermost call makes its next call
WalkCall ==
    /\ wstack # <<>>
    /\ Top.next <= Len(FrameCalls(Top))
    /\ Len(wstack) < MaxDepth
    /\ wstack' = Append([wstack EXCEPT ![Len(wstack)].next = @ + 1], FrameCalls(Top)[Top.next])
    /\ UNCHANGED <<doc, calls, op, arg, panicked, wdone>>

\* the innermost call returns; the outermost leaves the root node inferred
WalkReturn ==
    /\ wstack # <<>>
    /\ Top.next > Len(FrameCalls(Top))
    /\ wstack' = SubSeq(wstack, 1, Len(wstack) - 1)
    /\ IF Len(wstack) = 1
       THEN /\ wdone' = TRUE
            /\ calls' = calls + 1
            /\ doc' = [doc EXCEPT !.root =
                          IF op = "Read" THEN read(doc.root, TypeOf(arg), <<>>)
                          ELSE readDeep(doc.root, arg, <<>>)]
       ELSE UNCHANGED <<doc, calls, wdone>>
    /\ UNCHANGED <<op, arg, panicked>>

NextWalk == WalkStart \/ WalkCall \/ WalkReturn

SpecWalk == InitWalk /\ [][NextWalk]_vars

(***************************************************************************)
(* Properties                                                              *)
(***************************************************************************)
\* every Schema Node of the tree under n, n included
RECURSIVE Nodes(_)
Nodes(n) ==
    {n} \cup (IF n.Items = <<>> THEN {} ELSE Nodes(n.Items[1]))
        \cup UNION {Nodes(PropsOf(n)[k]) : k \in DOMAIN PropsOf(n)}

\* the root node the call o(v) leaves in a freshly constructed Document
FreshRoot(o, v) ==
    IF o = "Read" THEN read(EmptyProperty, TypeOf(v), <<>>)
    ELSE readDeep(EmptyProperty, v, <<>>)

\* the names a Required list holds
Range(q) == {q[i] : i \in 1..Len(q)}

\* C1: after any sequence of Read/ReadDeep calls on one Document, the root node
\* equals the root node the last call produces on a freshly constructed Document.
C1_RootOverwritten ==
    (calls >= 1 /\ ~panicked) => doc.root = FreshRoot(op, arg)

\* C2: in every state reachable by Read/ReadDeep calls, every name in a node's
\* required is a key of that node's properties, for every node of the tree.
C2_RequiredInProperties ==
    \A n \in Nodes(doc.root) : Range(n.Required) \subseteq DOMAIN PropsOf(n)

\* C5: no call of Read or ReadDeep ends in a runtime fault, whatever its input.
C5_NoRuntimeFault == ~panicked

\* the input of the one call is a record (a struct that is no named timestamp)
RecordInferred ==
    /\ calls = 1
    /\ ~panicked
    /\ KindOf(arg) = "struct"
    /\ TypeOf(arg).name \notin DOMAIN formatMapping

\* the node the call infers, on its own, for the i-th member of the record arg
MemberNode(i) ==
    IF op = "Read" THEN read(EmptyProperty, FieldType(TypeOf(arg), i), <<>>)
    ELSE readDeep(EmptyProperty, arg.elems[i], <<>>)

\* C3: after one Read or ReadDeep on a fresh Document, a node has items only if
\* its type is "array", and properties or required only if its type is "object".
C3_ItemsAndPropertiesByType ==
    (calls = 1 /\ ~panicked) =>
        \A n \in Nodes(doc.root) :
            /\ n.Items # <<>> => n.Type = "array"
            /\ (n.Properties # <<>> \/ n.Required # <<>>) => n.Type = "object"

\* a deep call over a slice whose element is an interface holding a record
C3_Witness ==
    /\ calls = 1
    /\ op = "ReadDeep"
    /\ KindOf(arg) = "slice"
    /\ Len(arg.elems) >= 1
    /\ KindOf(arg.elems[1]) = "interface"
    /\ doc.root.Items # <<>>
    /\ doc.root.Items[1].Type = "object"
    /\ doc.root.Items[1].Required # <<>>

\* the i-th member of record type t is a pointer to a struct, stored under a
\* name no other member writes
PointerToStructMember(t, i) ==
    /\ ~t.fields[i].Anonymous
    /\ ResolvedName(t.fields[i]) # "-"
    /\ FieldType(t, i).kind = "ptr"
    /\ Elem(FieldType(t, i)).kind = "struct"
    /\ \A j \in 1..Len(t.fields) : j # i => ResolvedName(t.fields[j]) # ResolvedName(t.fields[i])
    /\ \A j \in 1..Len(t.fields) :
          t.fields[j].Anonymous => ResolvedName(t.fields[i]) \notin DOMAIN PropsOf(MemberNode(j))

\* the node of the same member declared as the struct by value: holding what
\* the pointer points to, or the struct's zero value when the pointer is unset
ByValueNode(i) ==
    IF op = "Read" THEN read(EmptyProperty, Elem(FieldType(TypeOf(arg), i)), <<>>)
    ELSE IF arg.elems[i].elems # <<>> THEN readDeep(EmptyProperty, arg.elems[i].elems[1], <<>>)
    ELSE readDeep(EmptyProperty,
                  CHOOSE z \in ValuesOf(Elem(FieldType(TypeOf(arg), i))) : TRUE, <<>>)

\* C4 as stated: a pointer-to-struct member yields the node of the same member
\* declared by value, for a set and an unset pointer, under Read and ReadDeep.
C4_PointerAlwaysAsValue ==
    RecordInferred =>
        \A i \in 1..Len(TypeOf(arg).fields) :
            PointerToStructMember(TypeOf(arg), i) =>
                PropsOf(doc.root)[ResolvedName(TypeOf(arg).fields[i])] = ByValueNode(i)

\* C4, amended: a pointer-to-struct member yields the node of the same member
\* declared by value under Read, and under ReadDeep when the pointer is set; an
\* unset pointer under ReadDeep yields the node {type: "null"}.
C4_PointerAsValue ==
    RecordInferred =>
        \A i \in 1..Len(TypeOf(arg).fields) :
            PointerToStructMember(TypeOf(arg), i) =>
                PropsOf(doc.root)[ResolvedName(TypeOf(arg).fields[i])] =
                    IF op = "ReadDeep" /\ arg.elems[i].elems = <<>>
                    THEN [EmptyProperty EXCEPT !.Type = "null"]
                    ELSE ByValueNode(i)

\* a shallow call over a record with a pointer-to-struct member
C4_Witness ==
    /\ RecordInferred
    /\ op = "Read"
    /\ \E i \in 1..Len(TypeOf(arg).fields) :
          /\ PointerToStructMember(TypeOf(arg), i)
          /\ PropsOf(doc.root)[ResolvedName(TypeOf(arg).fields[i])].Type = "object"
          /\ PropsOf(doc.root)[ResolvedName(TypeOf(arg).fields[i])].Required # <<>>

\* the text of a map key: what the key, unwrapped from an interface, reads as
RECURSIVE KeyText(_)
KeyText(key) == IF KindOf(key) = "interface" THEN KeyText(ValueElem(key)) ELSE key.data

\* C7: ReadDeep on a map of n >= 1 entries yields properties of exactly n
\* entries, one per key, keyed by the key's text and holding the node of the
\* key's value; additionalProperties is not set.
C7_OnePropertyPerKey ==
    (calls = 1 /\ op = "ReadDeep" /\ KindOf(arg) = "map" /\ Len(arg.entries) >= 1) =>
        /\ Cardinality(DOMAIN PropsOf(doc.root)) = Len(arg.entries)
        /\ \A i \in 1..Len(arg.entries) :
              /\ KeyText(arg.entries[i].key) \in DOMAIN PropsOf(doc.root)
              /\ PropsOf(doc.root)[KeyText(arg.entries[i].key)] =
                     readDeep(EmptyProperty, arg.entries[i].val, <<>>)
        /\ ~doc.root.AdditionalProperties

\* the i-th member's own entry in required: its resolved name, unless the
\* name is "-" or its options hold omitempty
OwnRequired(field) ==
    IF ResolvedName(field) # "-" /\ ~Contains(parseTag(field.Tag).opts, "omitempty")
    THEN <<ResolvedName(field)>>
    ELSE <<>>

\* required as C8 states it, for the first n members: every embedded member
\* hands in the required names of its node
RECURSIVE StatedRequired(_)
StatedRequired(n) ==
    IF n = 0 THEN <<>>
    ELSE StatedRequired(n - 1) \o
         (IF TypeOf(arg).fields[n].Anonymous THEN MemberNode(n).Required
          ELSE OwnRequired(TypeOf(arg).fields[n]))

\* required for the first n members, an embedded member named "-" handing in nothing
RECURSIVE ExpectedRequired(_)
ExpectedRequired(n) ==
    IF n = 0 THEN <<>>
    ELSE ExpectedRequired(n - 1) \o
         (IF ~TypeOf(arg).fields[n].Anonymous THEN OwnRequired(TypeOf(arg).fields[n])
          ELSE IF ResolvedName(TypeOf(arg).fields[n]) # "-" THEN MemberNode(n).Required
          ELSE <<>>)

\* C8 as stated: required lists, in declaration order, the resolved names of the
\* non-embedded members not named "-" and without omitempty, with every embedded
\* member's required names at its position; no member with omitempty is listed.
C8_RequiredAsStated ==
    RecordInferred =>
        /\ doc.root.Required = StatedRequired(Len(TypeOf(arg).fields))
        /\ \A i \in 1..Len(TypeOf(arg).fields) :
              Contains(parseTag(TypeOf(arg).fields[i].Tag).opts, "omitempty") =>
                  ResolvedName(TypeOf(arg).fields[i]) \notin Range(doc.root.Required)

\* C8, amended: required lists, in declaration order, the resolved names of the
\* non-embedded members not named "-" and without omitempty, with the required
\* names of every embedded member not named "-" at its position; a member with
\* omitempty adds no entry of its own.
C8_Required ==
    RecordInferred => doc.root.Required = ExpectedRequired(Len(TypeOf(arg).fields))

\* a record with an omitempty member, a required member and an embedded record
C8_Witness ==
    /\ RecordInferred
    /\ \E i \in 1..Len(TypeOf(arg).fields) :
          /\ ~TypeOf(arg).fields[i].Anonymous
          /\ Contains(parseTag(TypeOf(arg).fields[i].Tag).opts, "omitempty")
    /\ \E i \in 1..Len(TypeOf(arg).fields) :
          /\ TypeOf(arg).fields[i].Anonymous
          /\ MemberNode(i).Required # <<>>

\* the keys the first n members hand in: a non-embedded member its resolved
\* name, an embedded member the keys of its node; a member named "-" nothing
RECURSIVE ExpectedKeys(_)
ExpectedKeys(n) ==
    IF n = 0 THEN {}
    ELSE ExpectedKeys(n - 1) \cup
         (IF ResolvedName(TypeOf(arg).fields[n]) = "-" THEN {}
          ELSE IF TypeOf(arg).fields[n].Anonymous THEN DOMAIN PropsOf(MemberNode(n))
          ELSE {ResolvedName(TypeOf(arg).fields[n])})

\* q without its i-th element
RemoveAt(q, i) == SubSeq(q, 1, i - 1) \o SubSeq(q, i + 1, Len(q))

\* the record v, declared and valued without its i-th member
WithoutMember(v, i) ==
    [v EXCEPT !.type = StructOf(TypeOf(v).name, RemoveAt(TypeOf(v).fields, i)),
              !.elems = RemoveAt(v.elems, i)]

\* C9: the keys of a record's properties are the resolved names of its
\* non-embedded members not named "-" and the keys of each embedded member's
\* node, flattened into the parent; a member named "-" hands in no key and no
\* entry of required: the root is the one of the record without that member.
C9_PropertyKeys ==
    RecordInferred =>
        /\ doc.root.Properties # <<>>
        /\ DOMAIN PropsOf(doc.root) = ExpectedKeys(Len(TypeOf(arg).fields))
        /\ \A i \in 1..Len(TypeOf(arg).fields) :
              ResolvedName(TypeOf(arg).fields[i]) = "-" =>
                  doc.root = FreshRoot(op, WithoutMember(arg, i))

\* a record with an embedded record, flattened, and a member named "-"
C9_Witness ==
    /\ RecordInferred
    /\ "Zoo" \in DOMAIN PropsOf(doc.root)
    /\ "E" \notin DOMAIN PropsOf(doc.root)
    /\ \E i \in 1..Len(TypeOf(arg).fields) :
          TypeOf(arg).fields[i].Anonymous /\ ResolvedName(TypeOf(arg).fields[i]) # "-"
    /\ \E i \in 1..Len(TypeOf(arg).fields) : ResolvedName(TypeOf(arg).fields[i]) = "-"

\* the kinds the kind table maps to a schema type of their own
MappedPrimitiveKinds == DOMAIN kindMapping \ {"slice", "struct", "map"}

\* Go's basic kinds, mapped or not
BasicKinds == MappedPrimitiveKinds \cup {"complex64", "complex128", "uintptr"}

\* t is built only from kinds of P, the named timestamp type, records and
\* slices: no pointer, map or interface anywhere in it
RECURSIVE BuiltFrom(_, _)
BuiltFrom(P, t) ==
    \/ Deref(t).name \in DOMAIN formatMapping
    \/ Deref(t).kind \in P
    \/ Deref(t).kind = "slice" /\ BuiltFrom(P, Elem(t))
    \/ /\ Deref(t).kind = "struct"
       /\ \A i \in 1..Len(Deref(t).fields) : BuiltFrom(P, FieldType(t, i))

\* the root the other mode leaves in a fresh Document for the same input
OtherModeRoot == FreshRoot(IF op = "Read" THEN "ReadDeep" ELSE "Read", arg)

\* C10 as stated: for every value built only from primitives, the named
\* timestamp type, records and slices of those, Read and ReadDeep on fresh
\* Documents produce identical trees.
C10_ModesAgreeOnBasic ==
    (calls = 1 /\ ~panicked /\ BuiltFrom(BasicKinds, TypeOf(arg))) => doc.root = OtherModeRoot

\* C10, amended: the same, for the primitives the kind table maps (boolean,
\* integer, floating-point and string kinds).
C10_ModesAgree ==
    (calls = 1 /\ ~panicked /\ BuiltFrom(MappedPrimitiveKinds, TypeOf(arg))) =>
        doc.root = OtherModeRoot

\* a deep call over a non-empty slice of records
C10_Witness ==
    /\ calls = 1
    /\ op = "ReadDeep"
    /\ BuiltFrom(MappedPrimitiveKinds, TypeOf(arg))
    /\ KindOf(arg) = "slice"
    /\ Len(arg.elems) >= 1
    /\ KindOf(arg.elems[1]) = "struct"
    /\ doc.root.Items # <<>>
    /\ doc.root.Items[1].Required # <<>>

\* no type under t mentions a type being declared: the type graph is acyclic
RECURSIVE AcyclicType(_)
AcyclicType(t) ==
    /\ t.kind # "named"
    /\ \A i \in 1..Len(t.elem) : AcyclicType(t.elem[i])
    /\ \A i \in 1..Len(t.key) : AcyclicType(t.key[i])
    /\ \A i \in 1..Len(t.fields) : AcyclicType(t.fields[i].Type)

\* the walk has ended, or its next step is within the depth followed
WalkEndedOrSteps ==
    \/ wdone
    \/ panicked
    \/ wstack = <<>>
    \/ Top.next > Len(FrameCalls(Top))
    \/ Len(wstack) < MaxDepth

\* C6: Read ends for every finite acyclic type graph and ReadDeep for every
\* finite acyclic value graph, the active calls never outnumbering what the
\* input's nesting allows (every value of WalkInputs nests less than MaxDepth deep).
C6_Terminates ==
    (op = "ReadDeep" \/ AcyclicType(arg.type)) => WalkEndedOrSteps

====
